---- MODULE Spec2Model ----
(***************************************************************************)
(* Model of classicle: the two constructors of frozen namespaces           *)
(* (frozen_instance, FrozenSpaceMeta) and the operations on the namespaces *)
(* they build.  Python semantics are those of CPython 3.10 or later        *)
(* (staticmethod objects are callable, classmethod objects are not).       *)
(*                                                                         *)
(* Attribute names are tuples of characters so that startswith/endswith    *)
(* are computed.  A Python dict is a sequence of <<key, value>> pairs with *)
(* unique keys, in insertion order.                                        *)
(***************************************************************************)
EXTENDS Integers, Sequences, FiniteSets, TLC

\* ---- bounds ----
MaxLen == 2
MaxObjects == 2

\* ---- names ----
K_A == <<"A">>
K_p == <<"_", "p">>
K_keys == <<"k", "e", "y", "s">>
K_items == <<"i", "t", "e", "m", "s">>
K_values == <<"v", "a", "l", "u", "e", "s">>
K_get == <<"g", "e", "t">>
K_attrs == <<"_", "_", "a", "t", "t", "r", "s", "_", "_">>
K_module == <<"_", "_", "m", "o", "d", "u", "l", "e", "_", "_">>
K_qualname == <<"_", "_", "q", "u", "a", "l", "n", "a", "m", "e", "_", "_">>
K_doc == <<"_", "_", "d", "o", "c", "_", "_">>
K_annotations == <<"_", "_", "a", "n", "n", "o", "t", "a", "t", "i", "o", "n", "s", "_", "_">>
K_dict == <<"_", "_", "d", "i", "c", "t", "_", "_">>
K_weakref == <<"_", "_", "w", "e", "a", "k", "r", "e", "f", "_", "_">>
K_name == <<"_", "_", "n", "a", "m", "e", "_", "_">>

\* name.startswith(prefix)
StartsWith(name, prefix) ==
    /\ Len(name) >= Len(prefix)
    /\ \A i \in 1..Len(prefix) : name[i] = prefix[i]

\* name.endswith(suffix)
EndsWith(name, suffix) ==
    /\ Len(name) >= Len(suffix)
    /\ \A i \in 1..Len(suffix) : name[Len(name) - Len(suffix) + i] = suffix[i]

\* ---- Python objects ----
Obj(k, v, its) == [kind |-> k, val |-> v, items |-> its]
IntObj(n) == Obj("int", n, <<>>)
Str == Obj("str", 0, <<>>)
None == Obj("NoneType", 0, <<>>)
Function == Obj("function", 0, <<>>)
ClassMethod == Obj("classmethod", 0, <<>>)
StaticMethod == Obj("staticmethod", 0, <<>>)
GetSetDescriptor == Obj("getset_descriptor", 0, <<>>)
Dict(its) == Obj("dict", 0, its)
MixinMethod(name) == Obj("method", 0, <<name>>)

\* callable(value)
Callable(v) == v.kind \in {"function", "staticmethod", "method"}

\* ---- dict helpers ----
DictKeys(d) == [i \in 1..Len(d) |-> d[i][1]]
DictHas(d, k) == \E i \in 1..Len(d) : d[i][1] = k
DictGet(d, k) == d[CHOOSE i \in 1..Len(d) : d[i][1] = k][2]
DictSet(d, k, v) ==
    IF DictHas(d, k)
    THEN [i \in 1..Len(d) |-> IF d[i][1] = k THEN <<k, v>> ELSE d[i]]
    ELSE Append(d, <<k, v>>)

\* ---- outcomes of an operation ----
Ok(v) == [status |-> "ok", val |-> v, msg |-> <<>>]
Raise(exc, m) == [status |-> exc, val |-> <<>>, msg |-> m]

\* the outcome r is a normal return of v / the exception exc with message m
Returns(r, v) == r.status = "ok" /\ r.val = v
Raises(r, exc, m) == r.status = exc /\ r.msg = m

\* ---- declaration templates ----
\* The class body as written: an ordered list of <<name, value>> bindings with
\* distinct names.
TemplateNames == {K_A, K_p, K_keys}
TemplateValues == {IntObj(1), IntObj(2), Function, ClassMethod, StaticMethod}

Distinct(d) == \A i, j \in 1..Len(d) : d[i][1] = d[j][1] => i = j

Templates ==
    UNION {{t \in [1..n -> TemplateNames \X TemplateValues] : Distinct(t)} : n \in 0..MaxLen}

\* names and values handed to set/delete/read operations
InternalNames == <<K_attrs, K_module, K_qualname, K_doc, K_annotations>>
SetNames == {K_A, K_attrs, K_doc}
SetValues == {Dict(<<>>)}
ReadNames == {K_A, K_keys}

DeclaredName == "Config"

\* the namespace dict a class statement hands to the metaclass
ClassBody(t) == <<<<K_module, Str>>, <<K_qualname, Str>>>> \o t

\* cls.__dict__ of the plain class a class statement builds
ClassDict(t) ==
    <<<<K_module, Str>>>> \o t
      \o <<<<K_dict, GetSetDescriptor>>, <<K_weakref, GetSetDescriptor>>, <<K_doc, None>>>>

\* namespace.get(key, default)
NsGet(namespace, key, default) ==
    IF DictHas(namespace, key) THEN DictGet(namespace, key) ELSE default

\* ---- Type-Style constructor: FrozenSpaceMeta.__new__ ----
\* attrs = {k: v for k, v in namespace.items() if not k.startswith("_") and not callable(v)}
MetaNewAttrs(namespace) ==
    SelectSeq(namespace, LAMBDA e : ~StartsWith(e[1], <<"_">>) /\ ~Callable(e[2]))

\* the __dict__ of the class built from new_namespace
MetaNew(name, namespace) ==
    << <<K_attrs, Dict(MetaNewAttrs(namespace))>>,
       <<K_module, NsGet(namespace, K_module, Str)>>,
       <<K_qualname, NsGet(namespace, K_qualname, Str)>>,
       <<K_doc, NsGet(namespace, K_doc, None)>>,
       <<K_annotations, NsGet(namespace, K_annotations, Dict(<<>>))>> >>

\* ---- Instance-Style constructor: frozen_instance ----
\* variant: private names are kept
FrozenInstanceAttrs_KeepPrivate(classDict) ==
    SelectSeq(classDict, LAMBDA e : ~Callable(e[2]))

\* attrs = {name: value for name, value in cls.__dict__.items()
\*          if not name.startswith("_") and not callable(value)}
FrozenInstanceAttrs(classDict) ==
    SelectSeq(classDict, LAMBDA e : ~StartsWith(e[1], <<"_">>) /\ ~Callable(e[2]))

RECURSIVE FrozenInstanceInit(_, _)
\* FrozenInstance.__init__: object.__setattr__(self, name, value) for each item
FrozenInstanceInit(self, items) ==
    IF items = <<>> THEN self
    ELSE FrozenInstanceInit(DictSet(self, Head(items)[1], Head(items)[2]), Tail(items))

\* ---- Type-Style namespace: operations of FrozenSpaceMeta on a class ----
\* A class is represented by its __dict__ (d).

IsDunder(name) == StartsWith(name, <<"_", "_">>) /\ EndsWith(name, <<"_", "_">>)

\* `key in container`; only a dict supports it among the modelled objects
PyIn(key, container) ==
    IF container.kind = "dict" THEN Ok(DictHas(container.items, key))
    ELSE Raise("TypeError", <<"argument is not iterable">>)

\* type.__getattribute__(cls, name): the class __dict__, then the methods the
\* metaclass inherits from Mapping, then the type's own attributes
MappingMixins == {K_keys, K_items, K_values, K_get}
TypeGetattribute(d, name) ==
    IF DictHas(d, name) THEN Ok(DictGet(d, name))
    ELSE IF name \in MappingMixins THEN Ok(MixinMethod(name))
    ELSE IF name = K_name THEN Ok(Str)
    ELSE Raise("AttributeError", <<"type object has no attribute", name>>)

\* FrozenSpaceMeta.__getattribute__
MetaGetattribute(d, name) ==
    IF IsDunder(name) THEN TypeGetattribute(d, name)
    ELSE LET attrs == TypeGetattribute(d, K_attrs) IN
         IF attrs.status = "AttributeError" THEN TypeGetattribute(d, name)
         ELSE LET isin == PyIn(name, attrs.val) IN
              IF isin.status # "ok" THEN isin
              ELSE IF isin.val THEN Ok(DictGet(attrs.val.items, name))
              ELSE TypeGetattribute(d, name)

\* variant: the names come out in reverse insertion order
MetaIter_Reversed(d) ==
    LET a == MetaGetattribute(d, K_attrs) IN
    IF a.status # "ok" THEN a
    ELSE IF a.val.kind = "dict"
         THEN Ok([i \in 1..Len(a.val.items) |-> a.val.items[Len(a.val.items) + 1 - i][1]])
    ELSE Raise("TypeError", <<"object is not iterable">>)

\* FrozenSpaceMeta.__iter__: iter(cls.__attrs__), consumed
MetaIter(d) ==
    LET attrs == MetaGetattribute(d, K_attrs) IN
    IF attrs.status # "ok" THEN attrs
    ELSE IF attrs.val.kind = "dict" THEN Ok(DictKeys(attrs.val.items))
    ELSE Raise("TypeError", <<"object is not iterable">>)

\* FrozenSpaceMeta.__len__
MetaLen(d) ==
    LET attrs == MetaGetattribute(d, K_attrs) IN
    IF attrs.status # "ok" THEN attrs
    ELSE IF attrs.val.kind = "dict" THEN Ok(Len(attrs.val.items))
    ELSE Raise("TypeError", <<"object has no len()">>)

\* variant: a missing key yields None instead of KeyError
MetaGetitem_NoKeyError(d, key) ==
    LET a == MetaGetattribute(d, K_attrs) IN
    IF a.status # "ok" THEN a
    ELSE LET isin == PyIn(key, a.val) IN
         IF isin.status # "ok" THEN isin
         ELSE IF isin.val THEN Ok(DictGet(a.val.items, key))
         ELSE Ok(None)

\* FrozenSpaceMeta.__getitem__
MetaGetitem(d, key) ==
    LET attrs == MetaGetattribute(d, K_attrs) IN
    IF attrs.status # "ok" THEN attrs
    ELSE LET isin == PyIn(key, attrs.val) IN
         IF isin.status # "ok" THEN isin
         ELSE IF isin.val THEN Ok(DictGet(attrs.val.items, key))
         ELSE Raise("KeyError", <<key>>)

\* Mapping.__contains__: try cls[key] except KeyError
MetaContains(d, key) ==
    LET r == MetaGetitem(d, key) IN
    IF r.status = "ok" THEN Ok(TRUE)
    ELSE IF r.status = "KeyError" THEN Ok(FALSE)
    ELSE r

RECURSIVE ItemsOf(_, _)
\* ItemsView iteration: (key, cls[key]) for key in keys, stopping at the first
\* failure
ItemsOf(d, keys) ==
    IF keys = <<>> THEN Ok(<<>>)
    ELSE LET r == MetaGetitem(d, Head(keys)) IN
         IF r.status # "ok" THEN r
         ELSE LET rest == ItemsOf(d, Tail(keys)) IN
              IF rest.status # "ok" THEN rest
              ELSE Ok(<<<<Head(keys), r.val>>>> \o rest.val)

\* calling the object an attribute lookup returned, with the class as receiver;
\* the views are consumed (list(cls.keys()), list(cls.items()), ...)
CallMixin(d, f) ==
    IF ~Callable(f) THEN Raise("TypeError", <<"object is not callable">>)
    ELSE IF f.kind # "method" THEN Ok(None)
    ELSE LET keys == MetaIter(d) IN
         IF keys.status # "ok" THEN keys
         ELSE IF f.items[1] = K_keys THEN keys
         ELSE LET its == ItemsOf(d, keys.val) IN
              IF its.status # "ok" THEN its
              ELSE IF f.items[1] = K_items THEN its
              ELSE IF f.items[1] = K_values
                   THEN Ok([i \in 1..Len(its.val) |-> its.val[i][2]])
              ELSE Ok(None)

\* cls.<method>() for a mapping method name: attribute lookup, then the call
MetaCallMethod(d, name) ==
    LET f == MetaGetattribute(d, name) IN
    IF f.status # "ok" THEN f ELSE CallMixin(d, f.val)

\* dict(cls): dict() looks up "keys" on its argument; when the lookup succeeds
\* it calls keys() and reads cls[key] for each key
MetaDict(d) ==
    LET f == MetaGetattribute(d, K_keys) IN
    IF f.status = "AttributeError" THEN Raise("TypeError", <<"cannot convert dictionary update sequence">>)
    ELSE IF f.status # "ok" THEN f
    ELSE LET keys == CallMixin(d, f.val) IN
         IF keys.status # "ok" THEN keys
         ELSE ItemsOf(d, keys.val)

\* FrozenSpaceMeta.__setattr__: the outcome and the class __dict__ afterwards
MetaSetattrAllowed(name) == \E i \in 1..Len(InternalNames) : InternalNames[i] = name

\* type.__setattr__ on a class: __qualname__ accepts only a str
TypeSetattr(d, name, value) ==
    IF name = K_qualname /\ value.kind # "str"
    THEN [res |-> Raise("TypeError", <<"can only assign string to __qualname__">>), d |-> d]
    ELSE [res |-> Ok(None), d |-> DictSet(d, name, value)]

\* variant: every name is passed on to type.__setattr__
MetaSetattr_NoGuard(d, name, value) == TypeSetattr(d, name, value)

MetaSetattr(d, name, value) ==
    IF MetaSetattrAllowed(name) THEN TypeSetattr(d, name, value)
    ELSE [res |-> Raise("AttributeError", <<"Cannot modify attribute", name, "on frozen namespace">>),
          d |-> d]

\* FrozenSpaceMeta.__delattr__
MetaDelattr(d, name) ==
    [res |-> Raise("AttributeError", <<"Cannot delete attribute", name, "on frozen namespace">>),
     d |-> d]

\* variant: the message names the base type instead of the receiver
MetaCall_BaseName(typeName) ==
    Raise("TypeError", <<"Cannot instantiate", "FrozenSpace">>)

\* FrozenSpaceMeta.__call__
MetaCall(typeName) ==
    Raise("TypeError", <<"Cannot instantiate", typeName>>)

\* ---- Instance-Style namespace: operations of FrozenInstance ----
\* attrs is the closure variable, self the object's __dict__.

\* names resolved through the FrozenInstance type rather than the object
FrozenInstanceTypeAttrs == {K_module, K_doc, K_dict, K_weakref}

\* hasattr(self, name)
Hasattr(self, name) == DictHas(self, name) \/ name \in FrozenInstanceTypeAttrs

\* object.__getattribute__(self, name)
InstGetattribute(self, name) ==
    IF DictHas(self, name) THEN Ok(DictGet(self, name))
    ELSE IF name = K_dict THEN Ok(Dict(self))
    ELSE IF name = K_module THEN Ok(Str)
    ELSE IF name \in FrozenInstanceTypeAttrs THEN Ok(None)
    ELSE Raise("AttributeError", <<"object has no attribute", name>>)

\* FrozenInstance.__iter__, consumed: (name, attrs[name]) for name in attrs
InstIter(attrs) ==
    Ok([i \in 1..Len(attrs) |-> <<DictKeys(attrs)[i], DictGet(attrs, DictKeys(attrs)[i])>>])

\* FrozenInstance.__setattr__
InstSetattr(self, name, value) ==
    IF Hasattr(self, name)
    THEN [res |-> Raise("AttributeError", <<"Cannot modify attribute", name, "on frozen instance">>),
          self |-> self]
    ELSE [res |-> Ok(None), self |-> DictSet(self, name, value)]

\* FrozenInstance.__delattr__
InstDelattr(self, name) ==
    [res |-> Raise("AttributeError", <<"Cannot delete attribute", name, "on frozen instance">>),
     self |-> self]

\* FrozenInstance defines no __getitem__, __len__, __contains__ or __call__
InstGetitem(attrs, key) == Raise("TypeError", <<"object is not subscriptable">>)
InstLen(attrs) == Raise("TypeError", <<"object has no len()">>)
InstCall == Raise("TypeError", <<"object is not callable">>)

\* `name in obj` without __contains__: any(x == name for x in iter(obj)); the
\* items are tuples and a tuple never equals a str
TupleEqStr(t, name) == FALSE
InstContains(attrs, name) ==
    LET its == InstIter(attrs) IN
    Ok(\E i \in 1..Len(its.val) : TupleEqStr(its.val[i], name))

\* ---- state ----
VARIABLES
    tmpl,       \* the declaration template of the class statement
    phase,      \* "declared", then "type" (FrozenSpace subclass) or "instance" (frozen_instance)
    cls,        \* Type-Style: the __dict__ of the class
    attrs,      \* Instance-Style: the closure variable attrs
    inst,       \* Instance-Style: the __dict__ of the returned object
    nObjs,      \* Instance-Style: number of FrozenInstance objects created
    harvested,  \* the content the constructor harvested, as of construction
    derived,    \* Type-Style: the class declared with the namespace as its base
    last        \* the most recent operation, its arguments and its outcome

vars == <<tmpl, phase, cls, attrs, inst, nObjs, harvested, derived, last>>

Did(op, arg, res) == [op |-> op, arg |-> arg, res |-> res]

\* no class has been declared with the namespace as its base
NoDerived == [declared |-> FALSE, tmpl |-> <<>>, cls |-> <<>>, harvested |-> <<>>, baseBefore |-> <<>>]

Init ==
    /\ tmpl \in Templates
    /\ phase = "declared"
    /\ cls = <<>>
    /\ attrs = <<>>
    /\ inst = <<>>
    /\ nObjs = 0
    /\ harvested = <<>>
    /\ derived = NoDerived
    /\ last = Did("declare", <<>>, Ok(None))

\* class Config(FrozenSpace): <tmpl>
DeclareSubclass ==
    /\ phase = "declared"
    /\ phase' = "type"
    /\ cls' = MetaNew(DeclaredName, ClassBody(tmpl))
    /\ harvested' = MetaNewAttrs(ClassBody(tmpl))
    /\ last' = Did("class", <<>>, Ok(None))
    /\ UNCHANGED <<tmpl, attrs, inst, nObjs, derived>>

\* @frozen_instance class Config: <tmpl>
Decorate ==
    /\ phase = "declared"
    /\ phase' = "instance"
    /\ attrs' = FrozenInstanceAttrs(ClassDict(tmpl))
    /\ inst' = FrozenInstanceInit(<<>>, attrs')
    /\ nObjs' = 1
    /\ harvested' = attrs'
    /\ last' = Did("decorate", <<>>, Ok(None))
    /\ UNCHANGED <<tmpl, cls, derived>>

\* a read leaves everything but `last` alone
Read(op, arg, res) ==
    /\ last' = Did(op, arg, res)
    /\ UNCHANGED <<tmpl, phase, cls, attrs, inst, nObjs, harvested, derived>>

\* ---- Type-Style operations ----
TGetitem == /\ phase = "type"
            /\ \E k \in ReadNames : Read("getitem", <<k>>, MetaGetitem(cls, k))
TContains == /\ phase = "type"
             /\ \E k \in ReadNames : Read("contains", <<k>>, MetaContains(cls, k))
TGetattr == /\ phase = "type"
            /\ \E k \in ReadNames : Read("getattr", <<k>>, MetaGetattribute(cls, k))
TLen == phase = "type" /\ Read("len", <<>>, MetaLen(cls))
TIter == phase = "type" /\ Read("iter", <<>>, MetaIter(cls))
TKeys == phase = "type" /\ Read("keys", <<>>, MetaCallMethod(cls, K_keys))
TItems == phase = "type" /\ Read("items", <<>>, MetaCallMethod(cls, K_items))
TValues == phase = "type" /\ Read("values", <<>>, MetaCallMethod(cls, K_values))
TDict == phase = "type" /\ Read("dict", <<>>, MetaDict(cls))

TSetattr ==
    /\ phase = "type"
    /\ \E name \in SetNames, value \in SetValues :
         LET r == MetaSetattr(cls, name, value) IN
         /\ cls' = r.d
         /\ last' = Did("setattr", <<name, value>>, r.res)
    /\ UNCHANGED <<tmpl, phase, attrs, inst, nObjs, harvested, derived>>

TDelattr ==
    /\ phase = "type"
    /\ \E name \in SetNames :
         LET r == MetaDelattr(cls, name) IN
         /\ cls' = r.d
         /\ last' = Did("delattr", <<name>>, r.res)
    /\ UNCHANGED <<tmpl, phase, attrs, inst, nObjs, harvested, derived>>

\* FrozenSpace(...) at any time, Config(...) once it is declared
TCall ==
    \E typeName \in {"FrozenSpace"} \cup (IF phase = "type" THEN {DeclaredName} ELSE {}) :
        Read("construct", <<typeName>>, MetaCall(typeName))

\* ---- Instance-Style operations ----
IGetitem == /\ phase = "instance"
            /\ \E k \in ReadNames : Read("getitem", <<k>>, InstGetitem(attrs, k))
IContains == /\ phase = "instance"
             /\ \E k \in ReadNames : Read("contains", <<k>>, InstContains(attrs, k))
IGetattr == /\ phase = "instance"
            /\ \E k \in ReadNames : Read("getattr", <<k>>, InstGetattribute(inst, k))
ILen == phase = "instance" /\ Read("len", <<>>, InstLen(attrs))
IIter == phase = "instance" /\ Read("iter", <<>>, InstIter(attrs))

ISetattr ==
    /\ phase = "instance"
    /\ \E name \in SetNames, value \in SetValues :
         LET r == InstSetattr(inst, name, value) IN
         /\ inst' = r.self
         /\ last' = Did("setattr", <<name, value>>, r.res)
    /\ UNCHANGED <<tmpl, phase, cls, attrs, nObjs, harvested, derived>>

IDelattr ==
    /\ phase = "instance"
    /\ \E name \in SetNames :
         LET r == InstDelattr(inst, name) IN
         /\ inst' = r.self
         /\ last' = Did("delattr", <<name>>, r.res)
    /\ UNCHANGED <<tmpl, phase, cls, attrs, nObjs, harvested, derived>>

\* Config(...): the returned object is not callable
ICall == phase = "instance" /\ Read("call", <<DeclaredName>>, InstCall)

\* type(Config)(): FrozenInstance is an ordinary class; __init__ copies attrs
\* onto a new object
ITypeCall ==
    /\ phase = "instance"
    /\ nObjs < MaxObjects
    /\ nObjs' = nObjs + 1
    /\ last' = Did("type_call", <<>>, Ok(Dict(FrozenInstanceInit(<<>>, attrs))))
    /\ UNCHANGED <<tmpl, phase, cls, attrs, inst, harvested, derived>>

Next ==
    \/ DeclareSubclass \/ Decorate
    \/ TGetitem \/ TContains \/ TGetattr \/ TLen \/ TIter
    \/ TKeys \/ TItems \/ TValues \/ TDict
    \/ TSetattr \/ TDelattr \/ TCall
    \/ IGetitem \/ IContains \/ IGetattr \/ ILen \/ IIter
    \/ ISetattr \/ IDelattr \/ ICall \/ ITypeCall

Spec == Init /\ [][Next]_vars

\* ---- Type-Style extension: class Derived(Config): <body> ----
DerivedName == "Derived"

\* the class bodies of the derived class: empty, or one binding that redeclares
\* a name of the base or declares a member
DerivedTemplateNames == {K_A, K_keys}
DerivedTemplateValues == {IntObj(2), StaticMethod}
DerivedTemplates ==
    {<<>>} \cup {<<e>> : e \in DerivedTemplateNames \X DerivedTemplateValues}

\* names handed to the operations on the derived class
DerivedSetNames == {K_A, K_attrs}
MemberNames == TemplateNames

RECURSIVE MroMerge(_)
\* type.__getattribute__ walks the __dict__ of each class of the MRO in order:
\* the bindings visible on the class, the first binding of a name winning
MroMerge(dicts) ==
    IF dicts = <<>> THEN <<>>
    ELSE LET rest == MroMerge(Tail(dicts)) IN
         Head(dicts) \o SelectSeq(rest, LAMBDA e : ~DictHas(Head(dicts), e[1]))

\* the __dict__ of FrozenSpace itself (class body: docstring and pass)
FrozenSpaceDict ==
    MetaNew("FrozenSpace", <<<<K_module, Str>>, <<K_qualname, Str>>, <<K_doc, Str>>>>)

\* variant: the content of the base is merged into the content of the class
MetaNewDerived_MergeBase(name, base, namespace) ==
    LET own == MetaNewAttrs(namespace)
        inherited == SelectSeq(DictGet(base, K_attrs).items, LAMBDA e : ~DictHas(own, e[1]))
    IN DictSet(MetaNew(name, namespace), K_attrs, Dict(inherited \o own))

\* FrozenSpaceMeta.__new__(mcs, name, (base,), namespace): the bases reach only
\* type.__new__
MetaNewDerived(name, base, namespace) == MetaNew(name, namespace)

\* variant: the bindings of the base shadow those of the derived class
DerivedView_BaseShadows == MroMerge(<<cls, derived.cls, FrozenSpaceDict>>)

\* the bindings type.__getattribute__ finds on the derived class:
\* Derived, Config, FrozenSpace
DerivedView == MroMerge(<<derived.cls, cls, FrozenSpaceDict>>)

\* class Derived(Config): <t>
DeclareDerived ==
    /\ phase = "type"
    /\ ~derived.declared
    /\ \E t \in DerivedTemplates :
         derived' = [declared |-> TRUE,
                     tmpl |-> t,
                     cls |-> MetaNewDerived(DerivedName, cls, ClassBody(t)),
                     harvested |-> MetaNewAttrs(ClassBody(t)),
                     baseBefore |-> cls]
    /\ last' = Did("derive", <<>>, Ok(None))
    /\ UNCHANGED <<tmpl, phase, cls, attrs, inst, nObjs, harvested>>

DGetitem == /\ derived.declared
            /\ \E k \in ReadNames : Read("D.getitem", <<k>>, MetaGetitem(DerivedView, k))
DContains == /\ derived.declared
             /\ \E k \in ReadNames : Read("D.contains", <<k>>, MetaContains(DerivedView, k))
DGetattr == /\ derived.declared
            /\ \E k \in ReadNames : Read("D.getattr", <<k>>, MetaGetattribute(DerivedView, k))
DDict == derived.declared /\ Read("D.dict", <<>>, MetaDict(DerivedView))

\* Derived.<name>()
DCallMember ==
    /\ derived.declared
    /\ \E k \in MemberNames : Read("D.call_member", <<k>>, MetaCallMethod(DerivedView, k))

\* Config.<name>()
TCallMember ==
    /\ phase = "type"
    /\ \E k \in MemberNames : Read("call_member", <<k>>, MetaCallMethod(cls, k))

DSetattr ==
    /\ derived.declared
    /\ \E name \in DerivedSetNames, value \in SetValues :
         LET r == MetaSetattr(derived.cls, name, value) IN
         /\ derived' = [derived EXCEPT !.cls = r.d]
         /\ last' = Did("D.setattr", <<name, value>>, r.res)
    /\ UNCHANGED <<tmpl, phase, cls, attrs, inst, nObjs, harvested>>

DDelattr ==
    /\ derived.declared
    /\ \E name \in DerivedSetNames :
         LET r == MetaDelattr(derived.cls, name) IN
         /\ derived' = [derived EXCEPT !.cls = r.d]
         /\ last' = Did("D.delattr", <<name>>, r.res)
    /\ UNCHANGED <<tmpl, phase, cls, attrs, inst, nObjs, harvested>>

\* Derived(...)
DCall == derived.declared /\ Read("D.construct", <<DerivedName>>, MetaCall(DerivedName))

NextDerived ==
    \/ DeclareSubclass \/ DeclareDerived
    \/ DGetitem \/ DContains \/ DGetattr \/ DDict
    \/ DCallMember \/ TCallMember
    \/ DSetattr \/ DDelattr \/ DCall

SpecDerived == Init /\ [][NextDerived]_vars

\* ---- string form, hash and equality ----
\* repr(value), as a sequence of characters and tokens
ReprOf(v) ==
    CASE v.kind = "int" -> <<ToString(v.val)>>
      [] v.kind = "dict" -> <<"{">> \o <<"}">>
      [] v.kind = "NoneType" -> <<"None">>
      [] OTHER -> <<"<", v.kind, ">">>

RECURSIVE JoinItems(_)
\* ", ".join(f"{k}={v!r}" for k, v in items)
JoinItems(items) ==
    IF items = <<>> THEN <<>>
    ELSE Head(items)[1] \o <<"=">> \o ReprOf(Head(items)[2])
           \o (IF Tail(items) = <<>> THEN <<>> ELSE <<",", " ">> \o JoinItems(Tail(items)))

\* f"{name}({items})"
FormatRepr(name, joined) == <<name, "(">> \o joined \o <<")">>

\* FrozenSpaceMeta.__repr__: cls.items() is resolved by attribute access
MetaRepr(typeName, d) ==
    LET its == MetaCallMethod(d, K_items) IN
    IF its.status # "ok" THEN its
    ELSE IF its.val = None THEN Raise("TypeError", <<"object is not iterable">>)
    ELSE Ok(FormatRepr(typeName, JoinItems(its.val)))

\* FrozenInstance.__repr__: iterates self, names the decorated class
InstRepr(clsName, a) == Ok(FormatRepr(clsName, JoinItems(InstIter(a).val)))

\* operands of == : a class of the metaclass (identity id, __dict__ d), a plain
\* dict, an int
NamespaceOperand(id, d) == [kind |-> "namespace", id |-> id, d |-> d]
DictOperand(its) == [kind |-> "dict", id |-> 0, d |-> its]
IntOperand == [kind |-> "int", id |-> 0, d |-> <<>>]

\* FrozenSpaceMeta.__hash__: type.__hash__(cls), the hash of the object identity
MetaHash(id) == Ok(id)

\* dict == dict: the same keys with the same values, in any order
DictEq(a, b) ==
    /\ \A i \in 1..Len(a) : DictHas(b, a[i][1]) /\ DictGet(b, a[i][1]) = a[i][2]
    /\ \A i \in 1..Len(b) : DictHas(a, b[i][1])

\* other.items(), consumed
OperandItems(other) ==
    IF other.kind = "namespace" THEN MetaCallMethod(other.d, K_items) ELSE Ok(other.d)

\* cls == other: FrozenSpaceMeta defines no __eq__ and type has none in its
\* __dict__, so the MRO finds Mapping.__eq__:
\*   if not isinstance(other, Mapping): return NotImplemented
\*   return dict(self.items()) == dict(other.items())
\* after NotImplemented from both sides the comparison is by identity
MetaEq(id, d, other) ==
    IF other.kind \notin {"namespace", "dict"}
    THEN Ok(FALSE)
    ELSE LET mine == MetaCallMethod(d, K_items) IN
         IF mine.status # "ok" THEN mine
         ELSE LET theirs == OperandItems(other) IN
              IF theirs.status # "ok" THEN theirs
              ELSE Ok(DictEq(mine.val, theirs.val))

\* templates with an entry named like the mapping method __repr__ and __eq__ use
DescribeTemplateNames == {K_A, K_items}
DescribeTemplateValues == {IntObj(1), IntObj(2), ClassMethod}
DescribeTemplates ==
    {t \in UNION {[1..n -> DescribeTemplateNames \X DescribeTemplateValues] : n \in 0..MaxLen} :
        Distinct(t)}

\* object identities: Config, a second class declared with the same body, and
\* FrozenSpace
ConfigId == 1
TwinId == 2
FrozenSpaceId == 3
EqOperands ==
    {NamespaceOperand(ConfigId, cls),
     NamespaceOperand(TwinId, MetaNew("Twin", ClassBody(tmpl))),
     NamespaceOperand(FrozenSpaceId, FrozenSpaceDict),
     DictOperand(MetaNewAttrs(ClassBody(tmpl))),
     IntOperand}

InitDescribe ==
    /\ tmpl \in DescribeTemplates
    /\ phase = "declared"
    /\ cls = <<>>
    /\ attrs = <<>>
    /\ inst = <<>>
    /\ nObjs = 0
    /\ harvested = <<>>
    /\ derived = NoDerived
    /\ last = Did("declare", <<>>, Ok(None))

TRepr == phase = "type" /\ Read("repr", <<>>, MetaRepr(DeclaredName, cls))
IRepr == phase = "instance" /\ Read("repr", <<>>, InstRepr(DeclaredName, attrs))
THash == phase = "type" /\ Read("hash", <<>>, MetaHash(ConfigId))
TEq == /\ phase = "type"
       /\ \E other \in EqOperands : Read("eq", <<other>>, MetaEq(ConfigId, cls, other))

NextDescribe ==
    \/ DeclareSubclass \/ Decorate
    \/ TRepr \/ IRepr \/ THash \/ TEq \/ TItems \/ IIter

SpecDescribe == InitDescribe /\ [][NextDescribe]_vars

\* ---- Instance-Style namespace under set and delete attempts ----
\* dict(obj): dict() looks up "keys" on its argument; with no such attribute
\* it iterates the argument and takes each item as a (key, value) pair
InstDict(self, a) ==
    LET f == InstGetattribute(self, K_keys) IN
    IF f.status = "AttributeError" THEN InstIter(a)
    ELSE IF ~Callable(f.val) THEN Raise("TypeError", <<"object is not callable">>)
    ELSE Raise("TypeError", <<"object is not iterable">>)

\* names handed to set and delete on the object
InstanceSetNames == {K_A, K_p, K_keys, K_doc}

IDict == phase = "instance" /\ Read("dict", <<>>, InstDict(inst, attrs))

ISetattrAny ==
    /\ phase = "instance"
    /\ \E name \in InstanceSetNames, value \in SetValues :
         LET r == InstSetattr(inst, name, value) IN
         /\ inst' = r.self
         /\ last' = Did("setattr", <<name, value>>, r.res)
    /\ UNCHANGED <<tmpl, phase, cls, attrs, nObjs, harvested, derived>>

IDelattrAny ==
    /\ phase = "instance"
    /\ \E name \in InstanceSetNames :
         LET r == InstDelattr(inst, name) IN
         /\ inst' = r.self
         /\ last' = Did("delattr", <<name>>, r.res)
    /\ UNCHANGED <<tmpl, phase, cls, attrs, nObjs, harvested, derived>>

NextInstance ==
    \/ Decorate
    \/ IGetattr \/ IIter \/ IDict \/ IRepr
    \/ ISetattrAny \/ IDelattrAny

SpecInstance == Init /\ [][NextInstance]_vars

\* ---- properties ----

\* the values the specification counts as callable members of a template
IsMethod(v) == v.kind \in {"function", "classmethod", "staticmethod"}

\* the non-private, non-callable bindings of a template, in declaration order
ExpectedContent(t) ==
    SelectSeq(t, LAMBDA e : e[1][1] # "_" /\ ~IsMethod(e[2]))

\* the position of a name in the template (0 when it is not declared)
PosInTemplate(name) ==
    IF DictHas(tmpl, name) THEN CHOOSE i \in 1..Len(tmpl) : tmpl[i][1] = name ELSE 0

\* what iteration plus item lookup show of a Type-Style namespace
Observed(d) ==
    LET it == MetaIter(d) IN
    IF it.status # "ok" THEN it ELSE ItemsOf(d, it.val)

\* C1: the content built by either constructor is exactly the bindings of the
\* template that are neither private nor callable (functions, classmethods,
\* staticmethods), in declaration order.
C1_HarvestExact ==
    /\ phase # "declared" => harvested = ExpectedContent(tmpl)
    /\ last.op = "class" => Returns(Observed(cls), ExpectedContent(tmpl))
    /\ last.op = "decorate" => Returns(InstIter(attrs), ExpectedContent(tmpl))

\* C2 (I1): whatever operations have been attempted, the content observed
\* through iteration, item lookup and attribute access is the content
\* harvested at construction.
C2_ContentFixed ==
    /\ phase = "type" =>
        /\ Returns(Observed(cls), harvested)
        /\ \A i \in 1..Len(harvested) :
              Returns(MetaGetattribute(cls, harvested[i][1]), harvested[i][2])
    /\ phase = "instance" =>
        /\ Returns(InstIter(attrs), harvested)
        /\ \A i \in 1..Len(harvested) :
              Returns(InstGetattribute(inst, harvested[i][1]), harvested[i][2])

\* C3: every set(name, value) on a constructed namespace fails with an
\* immutability violation (AttributeError), whatever the name.
C3_SetAlwaysFails ==
    last.op = "setattr" => last.res.status = "AttributeError"

\* C4: set(k, v) on a name k of the content and delete(name) on any name fail
\* with AttributeError ("Cannot modify attribute" / "Cannot delete attribute")
\* and leave the content and every attribute binding as they were.
C4_Refused(res, op, name) ==
    /\ res.status = "AttributeError"
    /\ res.msg[1] = (IF op = "setattr" THEN "Cannot modify attribute" ELSE "Cannot delete attribute")
    /\ res.msg[2] = name

C4_FailedMutationFrame ==
    /\ [](phase = "type" =>
            /\ \A i \in 1..Len(harvested), v \in SetValues :
                 LET r == MetaSetattr(cls, harvested[i][1], v) IN
                 C4_Refused(r.res, "setattr", harvested[i][1]) /\ r.d = cls
            /\ \A name \in SetNames \cup ReadNames :
                 LET r == MetaDelattr(cls, name) IN
                 C4_Refused(r.res, "delattr", name) /\ r.d = cls)
    /\ [](phase = "instance" =>
            /\ \A i \in 1..Len(harvested), v \in SetValues :
                 LET r == InstSetattr(inst, harvested[i][1], v) IN
                 C4_Refused(r.res, "setattr", harvested[i][1]) /\ r.self = inst
            /\ \A name \in SetNames \cup ReadNames :
                 LET r == InstDelattr(inst, name) IN
                 C4_Refused(r.res, "delattr", name) /\ r.self = inst)
    /\ [][((last'.op = "setattr" /\ DictHas(harvested, last'.arg[1])) \/ last'.op = "delattr")
            => /\ C4_Refused(last'.res, last'.op, last'.arg[1])
               /\ UNCHANGED <<cls, attrs, inst, harvested, nObjs>>]_vars

C4_Witness ==
    /\ phase = "type"
    /\ last.op = "setattr"
    /\ DictHas(harvested, last.arg[1])
    /\ last.res.status = "AttributeError"
    /\ Len(harvested) = 2

\* C5: constructing from a Type-Style namespace (FrozenSpace or a subclass)
\* fails with TypeError naming the type, creates no object and leaves the
\* content unchanged.
C5_ConstructFails ==
    [][last'.op = "construct"
         => /\ Raises(last'.res, "TypeError", <<"Cannot instantiate", last'.arg[1]>>)
            /\ UNCHANGED <<cls, attrs, inst, harvested, nObjs>>]_vars

C5_Witness ==
    /\ phase = "type"
    /\ last.op = "construct"
    /\ last.arg = <<DeclaredName>>
    /\ last.res.status = "TypeError"
    /\ harvested # <<>>

\* C6: the Instance-Style constructor yields exactly one namespace object per
\* template; no operation open to a holder of the object yields a second one.
C6_SingleObject ==
    phase = "instance" => nObjs = 1

\* what len, `in`, item lookup and attribute access return on class d agrees
\* with the harvested content
ReadsMatchHarvest(d) ==
    /\ Returns(MetaLen(d), Len(harvested))
    /\ \A k \in ReadNames :
         /\ Returns(MetaContains(d, k), DictHas(harvested, k))
         /\ DictHas(harvested, k) =>
              /\ Returns(MetaGetitem(d, k), DictGet(harvested, k))
              /\ Returns(MetaGetattribute(d, k), DictGet(harvested, k))
         /\ ~DictHas(harvested, k) => Raises(MetaGetitem(d, k), "KeyError", <<k>>)

\* the class still holds the content its construction stored
AsBuilt == phase = "type" /\ Returns(TypeGetattribute(cls, K_attrs), Dict(harvested))

TypeReadOps == {"getitem", "contains", "getattr", "len", "iter", "keys", "items", "values", "dict"}

\* C7: on a Type-Style namespace built from a template, len is the number of
\* harvested entries, `k in N` holds exactly for the harvested names, N[k] and
\* N.k return the harvested value of a harvested k, N[k] raises KeyError(k)
\* otherwise, and no read changes the content.
C7_ReadsMatchHarvest ==
    /\ [](last.op = "class" => AsBuilt)
    /\ [](AsBuilt => ReadsMatchHarvest(cls))
    /\ [](AsBuilt =>
            /\ last.op = "len" => Returns(last.res, Len(harvested))
            /\ last.op = "contains" => Returns(last.res, DictHas(harvested, last.arg[1]))
            /\ (last.op = "getitem" /\ ~DictHas(harvested, last.arg[1]))
                 => Raises(last.res, "KeyError", last.arg))
    /\ [][(phase = "type" /\ last'.op \in TypeReadOps)
            => UNCHANGED <<cls, harvested, phase>>]_vars

C7_Witness ==
    /\ AsBuilt
    /\ last.op = "getitem"
    /\ last.res.status = "KeyError"
    /\ Len(harvested) = 1

\* the namespaces the two constructors produce from the template
ProducedType == MetaNew(DeclaredName, ClassBody(tmpl))
ProducedInstance == FrozenInstanceAttrs(ClassDict(tmpl))

SameOutcome(a, b) ==
    /\ a.status = b.status
    /\ a.status = "ok" => a.val = b.val

\* C8 (as stated): from the same template the two styles give the same
\* outcome for item_get(name), contains(name), length() and iterate().
C8_SameReadContract ==
    phase # "declared" =>
        /\ \A k \in ReadNames :
             /\ SameOutcome(MetaGetitem(ProducedType, k), InstGetitem(ProducedInstance, k))
             /\ SameOutcome(MetaContains(ProducedType, k), InstContains(ProducedInstance, k))
        /\ SameOutcome(MetaLen(ProducedType), InstLen(ProducedInstance))
        /\ SameOutcome(MetaIter(ProducedType), InstIter(ProducedInstance))

\* C8 (amended): from the same template the two styles harvest the same
\* content and iterate it in the same order, the Instance-Style yielding
\* (name, value) pairs where the Type-Style yields names; on the Instance-Style
\* item_get(name) and length() fail with TypeError and contains(name) is false
\* for every name.
C8_SharedHarvestOnly ==
    /\ phase # "declared" =>
        /\ Returns(MetaGetattribute(ProducedType, K_attrs), Dict(ProducedInstance))
        /\ Returns(MetaIter(ProducedType), DictKeys(InstIter(ProducedInstance).val))
        /\ InstIter(ProducedInstance).val = Observed(ProducedType).val
        /\ InstLen(ProducedInstance).status = "TypeError"
        /\ \A k \in ReadNames :
             /\ InstGetitem(ProducedInstance, k).status = "TypeError"
             /\ Returns(InstContains(ProducedInstance, k), FALSE)
    /\ phase = "instance" =>
        /\ attrs = ProducedInstance
        /\ last.op \in {"getitem", "len"} => last.res.status = "TypeError"
        /\ last.op = "contains" => Returns(last.res, FALSE)
        /\ last.op = "iter" => Returns(last.res, harvested)

C8_Witness ==
    /\ phase = "instance"
    /\ last.op = "getitem"
    /\ DictHas(harvested, last.arg[1])
    /\ Len(harvested) = 2

\* what iterating the namespace yields in the current state
IterView == IF phase = "type" THEN MetaIter(cls) ELSE InstIter(attrs)

\* the names an iteration yields (the Instance-Style yields pairs)
IterNames(view) == IF phase = "type" THEN view.val ELSE DictKeys(view.val)

\* s lists exactly the harvested names, each once, in template order
InDeclarationOrder(s) ==
    /\ \A i \in 1..Len(s) : DictHas(harvested, s[i])
    /\ \A i \in 1..Len(harvested) : \E j \in 1..Len(s) : s[j] = harvested[i][1]
    /\ \A i, j \in 1..Len(s) : i < j => PosInTemplate(s[i]) < PosInTemplate(s[j])
    /\ \A i \in 1..Len(s) : PosInTemplate(s[i]) > 0

\* C9: iteration yields the entries in template declaration order, each once,
\* and is restartable: it yields the same sequence again after any reads and
\* any failed set, delete or construct attempts.
C9_IterationRestartable ==
    /\ [](last.op \in {"class", "decorate"} =>
            /\ IterView.status = "ok"
            /\ InDeclarationOrder(IterNames(IterView)))
    /\ [](last.op = "iter" => last.res = IterView)
    /\ [][(phase # "declared"
            /\ (last'.op \notin {"setattr", "delattr", "construct", "call", "type_call"}
                 \/ last'.res.status # "ok"))
           => IterView' = IterView]_vars

C9_Witness ==
    /\ last.op = "iter"
    /\ phase = "type"
    /\ Len(last.res.val) = 2

\* C10: on a Type-Style namespace items(), keys(), values() and dict(N) never
\* fail, agree with the content, and dict(N) equals the dict of N.items().
C10_MappingViews ==
    phase = "type" =>
        /\ MetaCallMethod(cls, K_items).status = "ok"
        /\ MetaCallMethod(cls, K_keys).status = "ok"
        /\ MetaCallMethod(cls, K_values).status = "ok"
        /\ MetaDict(cls).status = "ok"
        /\ Observed(cls).status = "ok"
        /\ MetaCallMethod(cls, K_items).val = Observed(cls).val
        /\ MetaCallMethod(cls, K_keys).val = DictKeys(Observed(cls).val)
        /\ MetaCallMethod(cls, K_values).val
             = [i \in 1..Len(Observed(cls).val) |-> Observed(cls).val[i][2]]
        /\ MetaDict(cls).val = MetaCallMethod(cls, K_items).val

\* the derived class still holds the content its declaration stored
DerivedAsBuilt ==
    /\ derived.declared
    /\ Returns(TypeGetattribute(derived.cls, K_attrs), Dict(derived.harvested))

\* C11 (I3): a class declared with a namespace as its base is a frozen
\* namespace whose content is the harvest of its own class body only (no entry
\* of the base is merged in), and the content of the base is the same after
\* the declaration as before it.
C11_DerivedOwnHarvest ==
    /\ [](last.op = "derive" => DerivedAsBuilt)
    /\ [](DerivedAsBuilt =>
            /\ Returns(Observed(DerivedView), ExpectedContent(derived.tmpl))
            /\ Returns(MetaLen(DerivedView), Len(ExpectedContent(derived.tmpl)))
            /\ \A i \in 1..Len(harvested) :
                 ~DictHas(derived.tmpl, harvested[i][1])
                    => Returns(MetaContains(DerivedView, harvested[i][1]), FALSE)
            /\ \A i \in 1..Len(derived.harvested), v \in SetValues :
                 LET r == MetaSetattr(derived.cls, derived.harvested[i][1], v) IN
                 C4_Refused(r.res, "setattr", derived.harvested[i][1]) /\ r.d = derived.cls
            /\ \A name \in DerivedSetNames :
                 LET r == MetaDelattr(derived.cls, name) IN
                 C4_Refused(r.res, "delattr", name) /\ r.d = derived.cls
            /\ MetaCall(DerivedName).status = "TypeError")
    /\ [](derived.declared =>
            /\ cls = derived.baseBefore
            /\ Returns(Observed(cls), harvested))
    /\ [][last'.op = "derive" => (cls' = cls /\ harvested' = harvested)]_vars

C11_Witness ==
    /\ DerivedAsBuilt
    /\ Len(harvested) = 2
    /\ Len(derived.harvested) = 1
    /\ last.op = "D.dict"
    /\ Returns(last.res, derived.harvested)

\* C12: a callable member of the class body (function, classmethod,
\* staticmethod) is not a key of the content, calling it through the namespace
\* returns its result, and a callable member of the base is callable through a
\* derived class that does not redeclare the name.
C12_CallablesReachable ==
    /\ phase = "type" =>
         \A i \in 1..Len(tmpl) :
            IsMethod(tmpl[i][2]) =>
                /\ Returns(MetaContains(cls, tmpl[i][1]), FALSE)
                /\ Returns(MetaCallMethod(cls, tmpl[i][1]), None)
    /\ derived.declared =>
         \A i \in 1..Len(tmpl) :
            (IsMethod(tmpl[i][2]) /\ ~DictHas(derived.tmpl, tmpl[i][1]))
                => Returns(MetaCallMethod(DerivedView, tmpl[i][1]), None)
    /\ (last.op \in {"call_member", "D.call_member"}
          /\ DictHas(tmpl, last.arg[1])
          /\ IsMethod(DictGet(tmpl, last.arg[1]))
          /\ (last.op = "D.call_member" => ~DictHas(derived.tmpl, last.arg[1])))
         => Returns(last.res, None)

\* C13: repr of a namespace of either style never fails and is
\* TypeName(name1=value1, name2=value2, ...) with the declared type name and
\* exactly the content pairs in declaration order; a second call returns the
\* same string.
C13_DescribeTotal ==
    /\ phase = "type" =>
         Returns(MetaRepr(DeclaredName, cls), FormatRepr(DeclaredName, JoinItems(harvested)))
    /\ phase = "instance" =>
         Returns(InstRepr(DeclaredName, attrs), FormatRepr(DeclaredName, JoinItems(harvested)))
    /\ last.op = "repr" =>
         Returns(last.res, FormatRepr(DeclaredName, JoinItems(harvested)))

\* the operands of == that are classes of the metaclass other than Config
OtherNamespaces == {o \in EqOperands : o.kind = "namespace" /\ o.id # ConfigId}

\* C14: a Type-Style namespace is hashable and compared by identity: hash(N)
\* succeeds and is stable, N == N, N is never equal to a distinct namespace
\* type nor to a plain mapping with the same content, and N1 == N2 implies
\* hash(N1) == hash(N2).
C14_IdentityEquality ==
    phase = "type" =>
        /\ Returns(MetaHash(ConfigId), ConfigId)
        /\ last.op = "hash" => Returns(last.res, ConfigId)
        /\ Returns(MetaEq(ConfigId, cls, NamespaceOperand(ConfigId, cls)), TRUE)
        /\ \A o \in OtherNamespaces : Returns(MetaEq(ConfigId, cls, o), FALSE)
        /\ Returns(MetaEq(ConfigId, cls, DictOperand(MetaNewAttrs(ClassBody(tmpl)))), FALSE)
        /\ \A o \in OtherNamespaces :
             Returns(MetaEq(ConfigId, cls, o), TRUE) => MetaHash(ConfigId) = MetaHash(o.id)
        /\ last.op = "eq" => Returns(last.res, last.arg[1] = NamespaceOperand(ConfigId, cls))

\* the data entries of the base that the derived class body does not redeclare
BaseOnlyNames ==
    {harvested[i][1] : i \in {j \in 1..Len(harvested) :
        ~IsMethod(harvested[j][2]) /\ ~DictHas(derived.tmpl, harvested[j][1])}}

BindingsKept ==
    \A i \in 1..Len(inst) : DictHas(inst', inst[i][1]) /\ DictGet(inst', inst[i][1]) = inst[i][2]

\* iteration, dict() and repr() give what they gave right after decoration
ViewsAsDecorated ==
    /\ Returns(InstIter(attrs), harvested)
    /\ InstDict(inst, attrs) = InstDict(FrozenInstanceInit(<<>>, harvested), harvested)
    /\ Returns(InstRepr(DeclaredName, attrs), FormatRepr(DeclaredName, JoinItems(harvested)))

\* C16: on an Instance-Style namespace, after any set and delete attempts,
\* (a) every name bound on the object keeps its value, a set on a bound name
\* and every delete failing, and (b) iteration, dict(N) and repr(N) depend only
\* on the content harvested at decoration.
C16_InstanceStable ==
    /\ [][phase = "instance" => BindingsKept]_vars
    /\ [][(last'.op = "delattr" \/ (last'.op = "setattr" /\ DictHas(inst, last'.arg[1])))
            => (last'.res.status = "AttributeError" /\ inst' = inst)]_vars
    /\ [](phase = "instance" => ViewsAsDecorated)
    /\ []((phase = "instance" /\ last.op = "dict")
            => last.res = InstDict(FrozenInstanceInit(<<>>, harvested), harvested))
====
